---- MODULE Spec2Model ----
(***************************************************************************)
(* PlotView (src/plot_view.go): a command-line pipeline                    *)
(*     parse flags -> ingest data file -> build+save chart -> display     *)
(* The source file holds two implementations of the program:              *)
(*   - the current one  (lines 218-528: main, parseFlags, run, readData,  *)
(*     parseLine, createPlot, displaySixel, isSixelSupported), and        *)
(*   - the earlier one  (lines 1-216: main, readDataFromFile, createPlot, *)
(*     plotDataToSixel, isSixelSupported).                                *)
(* Both are modelled; definitions of the earlier one carry the suffix V1  *)
(* where the two share a name.                                            *)
(*                                                                         *)
(* Text is modelled as sequences of one-character strings, so that        *)
(* trimming, splitting into fields, prefix tests, lower-casing and        *)
(* substring search are computed as the library functions compute them.   *)
(***************************************************************************)
EXTENDS Integers, Sequences, FiniteSets, TLC

VARIABLES
    impl,       \* which implementation runs: "v2" (lines 218-528) or "v1" (lines 1-216)
    nargs,      \* flag.NArg(): number of positional arguments
    cfg,        \* Config: Width, Height, Scale (a rational num/den)
    term,       \* os.Getenv("TERM"), <<>> when unset
    fileLines,  \* the content of the input file, as the lines scanner.Text() yields
    pc,         \* position of the (single-threaded) program
    pos,        \* number of lines the scanner has delivered so far
    points,     \* readData / readDataFromFile: the local slice  points
    lineIndex,  \* readData: lineIndex ; readDataFromFile: lineNumber  (synthetic X counter)
    lineCount,  \* readDataFromFile: lineCount (physical line counter)
    diags,      \* diagnostics emitted for malformed lines, in order
    open,       \* set of file handles currently open ("data", "img")
    ret,        \* the error value the last returned function handed to its caller
    data,       \* the slice ingestion returned to run / plotDataToSixel
    trace,      \* pipeline steps started so far, in order
    faults,     \* the faults the environment raised (flags, open, scan, chart, save, imgopen, decode, encode)
    saveDims,   \* dimensions handed to p.Save, <<>> before the save
    saved,      \* the image file was written
    supported,  \* result of isSixelSupported(): "yes" or "no", "unknown" before the call
    enc,        \* sixel.Encoder fields Width, Height as the program set them
    out,        \* events on standard output / the log, other than line diagnostics
    exitCode    \* process exit status, -1 while running

vars == <<impl, nargs, cfg, term, fileLines, pc, pos, points, lineIndex, lineCount,
          diags, open, ret, data, trace, faults, saveDims, saved, supported, enc,
          out, exitCode>>

-----------------------------------------------------------------------------
(* Bounds and input sets                                                   *)

\* Longest input file explored, in lines.
MaxLines == 3

\* unicode.IsSpace restricted to the characters of the input alphabet.
IsSpace(c) == c \in {" ", "\t"}

Digits == {"0", "1", "2", "3", "4", "5", "6", "7", "8", "9"}

DigitVal(c) ==
    CASE c = "0" -> 0 [] c = "1" -> 1 [] c = "2" -> 2 [] c = "3" -> 3
      [] c = "4" -> 4 [] c = "5" -> 5 [] c = "6" -> 6 [] c = "7" -> 7
      [] c = "8" -> 8 [] c = "9" -> 9

-----------------------------------------------------------------------------
(* Library functions on text                                               *)

\* strings.TrimSpace: drop leading and trailing white space.
RECURSIVE TrimLeft(_)
TrimLeft(s) ==
    IF s # <<>> /\ IsSpace(Head(s)) THEN TrimLeft(Tail(s)) ELSE s

RECURSIVE TrimRight(_)
TrimRight(s) ==
    IF s # <<>> /\ IsSpace(s[Len(s)]) THEN TrimRight(SubSeq(s, 1, Len(s) - 1)) ELSE s

TrimSpace(s) == TrimRight(TrimLeft(s))

\* strings.Fields: split around each run of white space; no empty fields.
\* FieldsFrom scans s left to right; cur is the field being collected.
RECURSIVE FieldsFrom(_, _, _)
FieldsFrom(s, cur, acc) ==
    IF s = <<>>
    THEN IF cur = <<>> THEN acc ELSE Append(acc, cur)
    ELSE IF IsSpace(Head(s))
         THEN FieldsFrom(Tail(s), <<>>, IF cur = <<>> THEN acc ELSE Append(acc, cur))
         ELSE FieldsFrom(Tail(s), Append(cur, Head(s)), acc)

Fields(s) == FieldsFrom(s, <<>>, <<>>)

\* strings.HasPrefix
HasPrefix(s, p) == Len(s) >= Len(p) /\ SubSeq(s, 1, Len(p)) = p

\* strings.Contains
Contains(s, sub) ==
    \E i \in 0..(Len(s) - Len(sub)) : SubSeq(s, i + 1, i + Len(sub)) = sub

\* strings.ToLower on the letters of the input alphabet.
LowerChar(c) ==
    CASE c = "X" -> "x" [] c = "T" -> "t" [] c = "E" -> "e" [] c = "R" -> "r"
      [] c = "M" -> "m" [] c = "V" -> "v" [] c = "L" -> "l"
      [] OTHER -> c

ToLower(s) == [i \in 1..Len(s) |-> LowerChar(s[i])]

\* strconv.ParseFloat(f, 64) restricted to the input alphabet: an optional
\* sign followed by one or more decimal digits is a literal; anything else
\* (letters, '#', '%', '/', an empty string, a lone sign) is a syntax error.
UnsignedOK(f) == f # <<>> /\ \A i \in 1..Len(f) : f[i] \in Digits

RECURSIVE UnsignedVal(_, _)
UnsignedVal(f, acc) ==
    IF f = <<>> THEN acc ELSE UnsignedVal(Tail(f), 10 * acc + DigitVal(Head(f)))

ParseFloatOK(f) ==
    IF f # <<>> /\ Head(f) \in {"-", "+"} THEN UnsignedOK(Tail(f)) ELSE UnsignedOK(f)

ParseFloat(f) ==
    IF Head(f) = "-" THEN 0 - UnsignedVal(Tail(f), 0)
    ELSE IF Head(f) = "+" THEN UnsignedVal(Tail(f), 0)
    ELSE UnsignedVal(f, 0)

-----------------------------------------------------------------------------
(* Input sets                                                              *)

\* Lines an input file is built from: blank, white space only, comments,
\* comment markers behind white space and at later positions, a '/' line,
\* one, two and three numeric fields, and non-numeric fields.
Lines ==
    { <<>>,                                \* ""
      <<" ", "\t">>,                       \* white space only
      <<"#", "1">>,                        \* "#1"
      <<" ", "#", "1">>,                   \* " #1"
      <<"%">>,                             \* "%"
      <<"/", "1">>,                        \* "/1"
      <<"7">>,                             \* "7"
      <<" ", "8", " ">>,                   \* " 8 "
      <<"1", "\t", "2">>,                  \* "1<TAB>2"
      <<"3", " ", "4", " ", "5">>,         \* "3 4 5"
      <<"x">>,                             \* "x"
      <<"9", " ", "#">>,                   \* "9 #"
      <<"x", " ", "6">> }                  \* "x 6"

RECURSIVE SeqsUpTo(_, _)
SeqsUpTo(S, n) ==
    IF n = 0 THEN { <<>> }
    ELSE LET shorter == SeqsUpTo(S, n - 1)
         IN  shorter \cup { Append(f, l) : f \in { g \in shorter : Len(g) = n - 1 }, l \in S }

\* Every file of at most MaxLines lines.
Files == SeqsUpTo(Lines, MaxLines)

\* Files used when the configuration and the terminal are varied.
RunFiles ==
    { <<>>,
      << <<"#", "1">>, <<>> >>,
      << <<"x">> >>,
      << <<"7">> >>,
      << <<"1", "\t", "2">>, <<"3", " ", "4", " ", "5">> >> }

Widths  == {1, 3, 100}
Heights == {2, 50}

\* Scale factors as exact rationals num/den (all dyadic, so that the float64
\* product float64(width) * scale is exact).
Scales ==
    { [num |-> 1, den |-> 1], [num |-> 2, den |-> 1], [num |-> 1, den |-> 2],
      [num |-> 3, den |-> 2] }

\* Values of the TERM environment variable; <<>> is "unset".
Terms ==
    { <<>>,
      <<"d", "u", "m", "b">>,
      <<"x", "t", "e", "r", "m">>,
      <<"X", "T", "E", "R", "M">>,
      <<"r", "-", "x", "t", "e", "r", "m", "-", "2">>,
      <<"v", "t", "3", "4", "0">>,
      <<"M", "L", "t", "e", "r", "m">>,
      <<"v", "t", "1", "0", "0">> }

-----------------------------------------------------------------------------
(* Program constants                                                       *)

defaultWidth    == 1200
defaultHeight   == 1200
defaultWidthV1  == 800
defaultHeightV1 == 600
defaultScale    == [num |-> 1, den |-> 1]

\* The zero value Point{} / DataPoint{}.
ZeroPoint == [X |-> 0, Y |-> 0]

\* A sixel.Encoder as NewEncoder returns it: Width and Height are zero.
NewEncoder == [Width |-> 0, Height |-> 0]

-----------------------------------------------------------------------------
(* parseLine (current implementation)                                      *)

\* parseLine with the synthetic X counted from 1.
parseLine_OneBased(line, idx) ==
    LET fields == Fields(line) IN
    CASE Len(fields) = 1 ->
            IF ~ParseFloatOK(fields[1])
            THEN [err |-> "invalid Y value", field |-> fields[1], got |-> 1, point |-> ZeroPoint]
            ELSE [err |-> "nil", field |-> <<>>, got |-> 1,
                  point |-> [X |-> idx + 1, Y |-> ParseFloat(fields[1])]]
      [] Len(fields) = 2 ->
            IF ~ParseFloatOK(fields[1])
            THEN [err |-> "invalid X value", field |-> fields[1], got |-> 2, point |-> ZeroPoint]
            ELSE IF ~ParseFloatOK(fields[2])
            THEN [err |-> "invalid Y value", field |-> fields[2], got |-> 2, point |-> ZeroPoint]
            ELSE [err |-> "nil", field |-> <<>>, got |-> 2,
                  point |-> [X |-> ParseFloat(fields[1]), Y |-> ParseFloat(fields[2])]]
      [] OTHER ->
            [err |-> "expected 1 or 2 values", field |-> <<>>, got |-> Len(fields),
             point |-> ZeroPoint]

parseLine(line, idx) ==
    LET fields == Fields(line) IN
    CASE Len(fields) = 1 ->
            IF ~ParseFloatOK(fields[1])
            THEN [err |-> "invalid Y value", field |-> fields[1], got |-> 1, point |-> ZeroPoint]
            ELSE [err |-> "nil", field |-> <<>>, got |-> 1,
                  point |-> [X |-> idx, Y |-> ParseFloat(fields[1])]]
      [] Len(fields) = 2 ->
            IF ~ParseFloatOK(fields[1])
            THEN [err |-> "invalid X value", field |-> fields[1], got |-> 2, point |-> ZeroPoint]
            ELSE IF ~ParseFloatOK(fields[2])
            THEN [err |-> "invalid Y value", field |-> fields[2], got |-> 2, point |-> ZeroPoint]
            ELSE [err |-> "nil", field |-> <<>>, got |-> 2,
                  point |-> [X |-> ParseFloat(fields[1]), Y |-> ParseFloat(fields[2])]]
      [] OTHER ->
            [err |-> "expected 1 or 2 values", field |-> <<>>, got |-> Len(fields),
             point |-> ZeroPoint]

-----------------------------------------------------------------------------
(* isSixelSupported, both implementations                                  *)

XTERM  == <<"x", "t", "e", "r", "m">>
VT340  == <<"v", "t", "3", "4", "0">>
MLTERM == <<"m", "l", "t", "e", "r", "m">>

isSixelSupported(t) ==
    LET lower == ToLower(t)
    IN  Contains(lower, XTERM) \/ Contains(lower, VT340) \/ Contains(lower, MLTERM)

isSixelSupportedV1(t) ==
    Contains(t, XTERM) \/ Contains(t, VT340) \/ Contains(t, MLTERM)

\* int(float64(n) / d): Go's conversion truncates toward zero.
Trunc(n, d) == IF n >= 0 THEN n \div d ELSE 0 - ((0 - n) \div d)

\* int(float64(w) * scale)
Scaled(w, scale) == Trunc(w * scale.num, scale.den)

IsOne(scale) == scale.num = scale.den

-----------------------------------------------------------------------------
(* Initial states                                                          *)

NoData == [done |-> FALSE, points |-> <<>>, err |-> "nil"]

InitCommon ==
    /\ pc = "main"
    /\ pos = 0
    /\ points = <<>>
    /\ lineIndex = 0
    /\ lineCount = 0
    /\ diags = <<>>
    /\ open = {}
    /\ ret = "nil"
    /\ data = NoData
    /\ trace = <<>>
    /\ faults = {}
    /\ saveDims = <<>>
    /\ saved = FALSE
    /\ supported = "unknown"
    /\ enc = NewEncoder
    /\ out = <<>>
    /\ exitCode = 0 - 1

\* Every file up to MaxLines lines, under the default configuration.
InitIngest ==
    /\ impl \in {"v2", "v1"}
    /\ nargs = 1
    /\ cfg = IF impl = "v2"
             THEN [Width |-> defaultWidth, Height |-> defaultHeight, Scale |-> defaultScale]
             ELSE [Width |-> defaultWidthV1, Height |-> defaultHeightV1, Scale |-> defaultScale]
    /\ term = XTERM
    /\ fileLines \in Files

\* A few files, under every configuration, terminal and argument count.
InitRun ==
    /\ impl \in {"v2", "v1"}
    /\ nargs \in {0, 1, 2}
    /\ cfg \in [Width : Widths, Height : Heights, Scale : Scales]
    /\ term \in Terms
    /\ fileLines \in RunFiles

Init == InitCommon /\ (InitIngest \/ InitRun)

-----------------------------------------------------------------------------
(* Current implementation (lines 218-528)                                  *)

Ingest   == <<pos, points, lineIndex, lineCount, diags>>
Inputs   == <<impl, nargs, cfg, term, fileLines>>
Display  == <<supported, enc>>

\* main, first half: cfg := parseFlags().  flag.Parse exits with status 2 on
\* a flag it cannot parse (flag.ExitOnError); a wrong argument count is a
\* log.Fatal (exit status 1).
parseFlags ==
    /\ impl = "v2" /\ pc = "main"
    /\ trace' = Append(trace, "flags")
    /\ \/ /\ faults' = faults \cup {"flags"}
          /\ pc' = "exit" /\ exitCode' = 2 /\ ret' = "usage"
          /\ out' = Append(out, "usage")
       \/ /\ UNCHANGED faults
          /\ IF nargs # 1
             THEN /\ pc' = "exit" /\ exitCode' = 1 /\ ret' = "usage"
                  /\ out' = Append(out, "usage")
             ELSE /\ pc' = "run" /\ UNCHANGED <<exitCode, ret, out>>
    /\ UNCHANGED <<Inputs, Ingest, open, data, saveDims, saved, Display>>

\* run calls readData; readData: os.Open and, on success, defer file.Close().
readData_Open ==
    /\ impl = "v2" /\ pc = "run"
    /\ trace' = Append(trace, "ingest")
    /\ \/ /\ faults' = faults \cup {"open"}
          /\ ret' = "open file"
          /\ data' = [done |-> TRUE, points |-> <<>>, err |-> "open file"]
          /\ pc' = "run_read"
          /\ UNCHANGED open
       \/ /\ open' = open \cup {"data"}
          /\ pc' = "readData_loop"
          /\ UNCHANGED <<faults, ret, data>>
    /\ UNCHANGED <<Inputs, Ingest, saveDims, saved, Display, out, exitCode>>

\* The diagnostic numbered by the physical line instead.
readData_LogLine_Physical == pos + 1

\* The line number readData's diagnostic reports: lineIndex+1.
readData_LogLine == lineIndex + 1

\* readData: one iteration of  for scanner.Scan() { ... }.
readData_Line ==
    /\ impl = "v2" /\ pc = "readData_loop"
    /\ pos < Len(fileLines)
    /\ pos' = pos + 1
    /\ LET line == TrimSpace(fileLines[pos + 1]) IN
       IF line = <<>> \/ line[1] = "#" \/ line[1] = "%"
       THEN UNCHANGED <<points, lineIndex, diags>>
       ELSE LET r == parseLine(line, lineIndex) IN
            IF r.err # "nil"
            THEN /\ diags' = Append(diags, [n |-> readData_LogLine, err |-> r.err,
                                            field |-> r.field, got |-> r.got])
                 /\ UNCHANGED <<points, lineIndex>>
            ELSE /\ points' = Append(points, r.point)
                 /\ lineIndex' = lineIndex + 1
                 /\ UNCHANGED diags
    /\ UNCHANGED <<Inputs, pc, lineCount, open, ret, data, trace, faults, saveDims,
                   saved, Display, out, exitCode>>

\* readData without the deferred close.
readData_Deferred_None == {}

\* The handles readData's  defer file.Close()  closes when it returns.
readData_Deferred == {"data"}

\* readData: scanner.Scan() returned false, either at the end of the file or
\* on a read fault; scanner.Err() decides the result.  The deferred
\* file.Close() runs on both returns.
readData_Return ==
    /\ impl = "v2" /\ pc = "readData_loop"
    /\ \/ /\ pos = Len(fileLines)
          /\ ret' = "nil"
          /\ data' = [done |-> TRUE, points |-> points, err |-> "nil"]
          /\ UNCHANGED faults
       \/ /\ faults' = faults \cup {"scan"}
          /\ ret' = "scan file"
          /\ data' = [done |-> TRUE, points |-> <<>>, err |-> "scan file"]
    /\ open' = open \ readData_Deferred
    /\ pc' = "run_read"
    /\ UNCHANGED <<Inputs, Ingest, trace, saveDims, saved, Display, out, exitCode>>

\* run without the empty-dataset check.
run_ReadError_NoEmptyCheck == data.err

\* The error run returns right after readData, "nil" when it goes on.
run_ReadError ==
    IF data.err # "nil" THEN data.err
    ELSE IF Len(data.points) = 0 THEN "no valid data points"
    ELSE "nil"

\* run, after readData: the error check and the empty-dataset check.
run_AfterRead ==
    /\ impl = "v2" /\ pc = "run_read"
    /\ ret' = run_ReadError
    /\ pc' = IF run_ReadError # "nil" THEN "main_ret" ELSE "createPlot"
    /\ UNCHANGED <<Inputs, Ingest, open, data, trace, faults, saveDims, saved, Display,
                   out, exitCode>>

\* createPlot: build the line and scatter plotters, then p.Save with
\* vg.Points(float64(cfg.Width)), vg.Points(float64(cfg.Height)).
createPlot ==
    /\ impl = "v2" /\ pc = "createPlot"
    /\ trace' = Append(trace, "chart")
    /\ \/ /\ faults' = faults \cup {"chart"}
          /\ ret' = "creating plotters"
          /\ UNCHANGED <<saveDims, saved>>
       \/ /\ faults' = faults \cup {"save"}
          /\ saveDims' = <<cfg.Width, cfg.Height>>
          /\ ret' = "save plot"
          /\ UNCHANGED saved
       \/ /\ saveDims' = <<cfg.Width, cfg.Height>>
          /\ saved' = TRUE
          /\ ret' = "nil"
          /\ UNCHANGED faults
    /\ pc' = "run_plot"
    /\ UNCHANGED <<Inputs, Ingest, open, data, Display, out, exitCode>>

\* run going on whatever createPlot returned.
run_PlotFailed_Ignored == FALSE

\* run's test of createPlot's result:  err != nil.
run_PlotFailed == ret # "nil"

\* run, after createPlot: the error check and the "Plot saved to" log line.
run_AfterPlot ==
    /\ impl = "v2" /\ pc = "run_plot"
    /\ IF run_PlotFailed
       THEN /\ pc' = "main_ret" /\ UNCHANGED out
       ELSE /\ pc' = "displaySixel" /\ out' = Append(out, "Plot saved")
    /\ UNCHANGED <<Inputs, Ingest, open, ret, data, trace, faults, saveDims, saved,
                   Display, exitCode>>

\* displaySixel: the capability check, then os.Open of the saved image and
\* defer imgFile.Close().
displaySixel_Open ==
    /\ impl = "v2" /\ pc = "displaySixel"
    /\ trace' = Append(trace, "display")
    /\ supported' = IF isSixelSupported(term) THEN "yes" ELSE "no"
    /\ IF ~isSixelSupported(term)
       THEN /\ ret' = "nil" /\ pc' = "run_disp"
            /\ UNCHANGED <<open, faults>>
       ELSE \/ /\ faults' = faults \cup {"imgopen"}
               /\ ret' = "open image file" /\ pc' = "run_disp"
               /\ UNCHANGED open
            \/ /\ open' = open \cup {"img"}
               /\ pc' = "displaySixel_img"
               /\ UNCHANGED <<faults, ret>>
    /\ UNCHANGED <<Inputs, Ingest, data, saveDims, saved, enc, out, exitCode>>

\* The encoder fields displaySixel sets before enc.Encode.
displaySixel_Enc ==
    IF ~IsOne(cfg.Scale)
    THEN [Width |-> Scaled(cfg.Width, cfg.Scale), Height |-> Scaled(cfg.Height, cfg.Scale)]
    ELSE NewEncoder

\* displaySixel: image.Decode, the scale factor, enc.Encode; the deferred
\* imgFile.Close() runs on every return.
displaySixel_Encode ==
    /\ impl = "v2" /\ pc = "displaySixel_img"
    /\ \/ /\ faults' = faults \cup {"decode"}
          /\ ret' = "decode image"
          /\ UNCHANGED <<enc, out>>
       \/ /\ faults' = faults \cup {"encode"}
          /\ enc' = displaySixel_Enc
          /\ ret' = "encode SIXEL"
          /\ UNCHANGED out
       \/ /\ enc' = displaySixel_Enc
          /\ out' = Append(out, "sixel")
          /\ ret' = "nil"
          /\ UNCHANGED faults
    /\ open' = open \ {"img"}
    /\ pc' = "run_disp"
    /\ UNCHANGED <<Inputs, Ingest, data, trace, saveDims, saved, supported, exitCode>>

\* run, after displaySixel: wrap the error or return nil.
run_AfterDisplay ==
    /\ impl = "v2" /\ pc = "run_disp"
    /\ pc' = "main_ret"
    /\ UNCHANGED <<Inputs, Ingest, open, ret, data, trace, faults, saveDims, saved,
                   Display, out, exitCode>>

\* main, second half: if err := run(cfg); err != nil { log.Fatal(err) }.
main_Exit ==
    /\ impl = "v2" /\ pc = "main_ret"
    /\ exitCode' = IF ret # "nil" THEN 1 ELSE 0
    /\ pc' = "exit"
    /\ UNCHANGED <<Inputs, Ingest, open, ret, data, trace, faults, saveDims, saved,
                   Display, out>>

-----------------------------------------------------------------------------
(* Earlier implementation (lines 1-216)                                    *)

\* main, first half: flag.Parse (exit status 2 on a flag it cannot parse) and
\* the argument-count check (os.Exit(1)).
mainV1 ==
    /\ impl = "v1" /\ pc = "main"
    /\ trace' = Append(trace, "flags")
    /\ \/ /\ faults' = faults \cup {"flags"}
          /\ pc' = "exit" /\ exitCode' = 2 /\ ret' = "usage"
          /\ out' = Append(out, "usage")
       \/ /\ UNCHANGED faults
          /\ IF nargs # 1
             THEN /\ pc' = "exit" /\ exitCode' = 1 /\ ret' = "usage"
                  /\ out' = Append(out, "usage")
             ELSE /\ pc' = "plotDataToSixel" /\ UNCHANGED <<exitCode, ret, out>>
    /\ UNCHANGED <<Inputs, Ingest, open, data, saveDims, saved, Display>>

\* plotDataToSixel calls readDataFromFile; readDataFromFile: os.Open and,
\* on success, defer file.Close().
readDataFromFile_Open ==
    /\ impl = "v1" /\ pc = "plotDataToSixel"
    /\ trace' = Append(trace, "ingest")
    /\ \/ /\ faults' = faults \cup {"open"}
          /\ ret' = "open file"
          /\ data' = [done |-> TRUE, points |-> <<>>, err |-> "open file"]
          /\ pc' = "plot_read"
          /\ UNCHANGED open
       \/ /\ open' = open \cup {"data"}
          /\ pc' = "readDataFromFile_loop"
          /\ UNCHANGED <<faults, ret, data>>
    /\ UNCHANGED <<Inputs, Ingest, saveDims, saved, Display, out, exitCode>>

\* What one iteration of readDataFromFile's loop does with a line, given the
\* counters before it: the point appended (if any) and the diagnostic
\* printed (if any).
readDataFromFile_Step(line, lineNumber, count) ==
    LET fields == Fields(line)
        skip   == [point |-> <<>>, diag |-> <<>>]
        parseError == [point |-> <<>>,
                       diag  |-> <<[n |-> count, err |-> "Parsing error",
                                    field |-> line, got |-> Len(fields)]>>]
    IN
    IF HasPrefix(line, <<"#">>) \/ HasPrefix(line, <<"%">>) \/ HasPrefix(line, <<"/">>)
    THEN skip
    ELSE IF Len(fields) = 0
    THEN skip
    ELSE IF Len(fields) >= 2
    THEN IF ~ParseFloatOK(fields[1]) \/ ~ParseFloatOK(fields[2])
         THEN parseError
         ELSE [point |-> <<[X |-> ParseFloat(fields[1]), Y |-> ParseFloat(fields[2])]>>,
               diag  |-> <<>>]
    ELSE IF Len(fields) = 1
    THEN IF ~ParseFloatOK(fields[1])
         THEN parseError
         ELSE [point |-> <<[X |-> lineNumber, Y |-> ParseFloat(fields[1])]>>,
               diag  |-> <<>>]
    ELSE [point |-> <<>>,
          diag  |-> <<[n |-> count, err |-> "Unsupported format",
                       field |-> line, got |-> Len(fields)]>>]

\* readDataFromFile: one iteration of  for scanner.Scan() { ... }.
readDataFromFile_Line ==
    /\ impl = "v1" /\ pc = "readDataFromFile_loop"
    /\ pos < Len(fileLines)
    /\ pos' = pos + 1
    /\ lineCount' = lineCount + 1
    /\ LET r == readDataFromFile_Step(fileLines[pos + 1], lineIndex, lineCount + 1) IN
       /\ points' = points \o r.point
       /\ lineIndex' = IF r.point # <<>> THEN lineIndex + 1 ELSE lineIndex
       /\ diags' = diags \o r.diag
    /\ UNCHANGED <<Inputs, pc, open, ret, data, trace, faults, saveDims, saved,
                   Display, out, exitCode>>

\* readDataFromFile: the loop ended; scanner.Err() decides the result.  The
\* deferred file.Close() runs on both returns.
readDataFromFile_Return ==
    /\ impl = "v1" /\ pc = "readDataFromFile_loop"
    /\ \/ /\ pos = Len(fileLines)
          /\ ret' = "nil"
          /\ data' = [done |-> TRUE, points |-> points, err |-> "nil"]
          /\ UNCHANGED faults
       \/ /\ faults' = faults \cup {"scan"}
          /\ ret' = "scan file"
          /\ data' = [done |-> TRUE, points |-> <<>>, err |-> "scan file"]
    /\ open' = open \ {"data"}
    /\ pc' = "plot_read"
    /\ UNCHANGED <<Inputs, Ingest, trace, saveDims, saved, Display, out, exitCode>>

\* plotDataToSixel, after readDataFromFile: error check, empty-data check.
plotDataToSixel_AfterRead ==
    /\ impl = "v1" /\ pc = "plot_read"
    /\ IF data.err # "nil"
       THEN /\ ret' = data.err /\ pc' = "main_ret"
       ELSE IF Len(data.points) = 0
       THEN /\ ret' = "no valid data points" /\ pc' = "main_ret"
       ELSE /\ ret' = "nil" /\ pc' = "createPlotV1"
    /\ UNCHANGED <<Inputs, Ingest, open, data, trace, faults, saveDims, saved, Display,
                   out, exitCode>>

\* createPlot of the earlier implementation: builds the plot, does not save.
createPlotV1 ==
    /\ impl = "v1" /\ pc = "createPlotV1"
    /\ trace' = Append(trace, "chart")
    /\ \/ /\ faults' = faults \cup {"chart"}
          /\ ret' = "creating plotters"
       \/ /\ ret' = "nil"
          /\ UNCHANGED faults
    /\ pc' = "plot_save"
    /\ UNCHANGED <<Inputs, Ingest, open, data, saveDims, saved, Display, out, exitCode>>

\* plotDataToSixel: the check of createPlot's error, then p.Save(width,
\* height, outFileName) and the "Plot saved to file" line.
plotDataToSixel_Save ==
    /\ impl = "v1" /\ pc = "plot_save"
    /\ IF ret # "nil"
       THEN /\ pc' = "main_ret"
            /\ UNCHANGED <<ret, faults, saveDims, saved, out>>
       ELSE \/ /\ faults' = faults \cup {"save"}
               /\ saveDims' = <<cfg.Width, cfg.Height>>
               /\ ret' = "save plot"
               /\ pc' = "main_ret"
               /\ UNCHANGED <<saved, out>>
            \/ /\ saveDims' = <<cfg.Width, cfg.Height>>
               /\ saved' = TRUE
               /\ out' = Append(out, "Plot saved")
               /\ pc' = "plot_display"
               /\ UNCHANGED <<ret, faults>>
    /\ UNCHANGED <<Inputs, Ingest, open, data, trace, Display, exitCode>>

\* plotDataToSixel: the capability check; when supported, os.Open of the
\* saved image and defer imgFile.Close(); otherwise a message and return nil.
plotDataToSixel_Display ==
    /\ impl = "v1" /\ pc = "plot_display"
    /\ trace' = Append(trace, "display")
    /\ supported' = IF isSixelSupportedV1(term) THEN "yes" ELSE "no"
    /\ IF ~isSixelSupportedV1(term)
       THEN /\ out' = Append(out, "Terminal does not support Sixel")
            /\ ret' = "nil" /\ pc' = "main_ret"
            /\ UNCHANGED <<open, faults>>
       ELSE \/ /\ faults' = faults \cup {"imgopen"}
               /\ ret' = "open image file" /\ pc' = "main_ret"
               /\ UNCHANGED <<open, out>>
            \/ /\ open' = open \cup {"img"}
               /\ pc' = "plot_img"
               /\ UNCHANGED <<faults, ret, out>>
    /\ UNCHANGED <<Inputs, Ingest, data, saveDims, saved, enc, exitCode>>

\* The encoder fields plotDataToSixel sets before enc.Encode.
plotDataToSixel_Enc ==
    LET newWidth  == Scaled(cfg.Width, cfg.Scale)
        newHeight == Scaled(cfg.Height, cfg.Scale)
    IN  IF ~IsOne(cfg.Scale) /\ newWidth > 0 /\ newHeight > 0
        THEN [Width |-> newWidth, Height |-> newHeight]
        ELSE NewEncoder

\* plotDataToSixel: image.Decode, the scale factor, enc.Encode; the deferred
\* imgFile.Close() runs when plotDataToSixel returns.
plotDataToSixel_Encode ==
    /\ impl = "v1" /\ pc = "plot_img"
    /\ \/ /\ faults' = faults \cup {"decode"}
          /\ ret' = "decode image"
          /\ UNCHANGED <<enc, out>>
       \/ /\ faults' = faults \cup {"encode"}
          /\ enc' = plotDataToSixel_Enc
          /\ ret' = "encode SIXEL"
          /\ UNCHANGED out
       \/ /\ enc' = plotDataToSixel_Enc
          /\ out' = Append(out, "sixel")
          /\ ret' = "nil"
          /\ UNCHANGED faults
    /\ open' = open \ {"img"}
    /\ pc' = "main_ret"
    /\ UNCHANGED <<Inputs, Ingest, data, trace, saveDims, saved, supported, exitCode>>

\* main, second half: if err := plotDataToSixel(...); err != nil { os.Exit(1) }.
mainV1_Exit ==
    /\ impl = "v1" /\ pc = "main_ret"
    /\ exitCode' = IF ret # "nil" THEN 1 ELSE 0
    /\ pc' = "exit"
    /\ UNCHANGED <<Inputs, Ingest, open, ret, data, trace, faults, saveDims, saved,
                   Display, out>>

-----------------------------------------------------------------------------
(* Specification                                                           *)

Next ==
    \/ parseFlags
    \/ readData_Open
    \/ readData_Line
    \/ readData_Return
    \/ run_AfterRead
    \/ createPlot
    \/ run_AfterPlot
    \/ displaySixel_Open
    \/ displaySixel_Encode
    \/ run_AfterDisplay
    \/ main_Exit
    \/ mainV1
    \/ readDataFromFile_Open
    \/ readDataFromFile_Line
    \/ readDataFromFile_Return
    \/ plotDataToSixel_AfterRead
    \/ createPlotV1
    \/ plotDataToSixel_Save
    \/ plotDataToSixel_Display
    \/ plotDataToSixel_Encode
    \/ mainV1_Exit

Spec == Init /\ [][Next]_vars

-----------------------------------------------------------------------------
(* Vocabulary of the properties                                            *)

InLoop == pc \in {"readData_loop", "readDataFromFile_loop"}

\* A step of the line loop: the scanner delivers line pos+1.
LineStep == InLoop /\ pos' = pos + 1

Elems(sq) == { sq[i] : i \in 1..Len(sq) }

IsPrefix(a, b) == Len(a) <= Len(b) /\ SubSeq(b, 1, Len(a)) = a

\* The comment/blank policy as the specification words it: the line holds
\* white space only, or its first character that is not white space is '#'
\* or '%'.
SkippedBySpec(raw) ==
    LET solid == { i \in 1..Len(raw) : ~IsSpace(raw[i]) }
    IN  \/ solid = {}
        \/ raw[CHOOSE i \in solid : \A j \in solid : i <= j] \in {"#", "%"}

\* The points the specification assigns to a file: one per well-formed data
\* line (not blank, not a comment, one or two fields, every field a float
\* literal), in file order, a one-field line taking for X the number of
\* points before it.
RECURSIVE PointsBySpec(_, _)
PointsBySpec(lines, acc) ==
    IF lines = <<>> THEN acc
    ELSE LET raw == Head(lines)
             f   == Fields(raw)
         IN  IF SkippedBySpec(raw) THEN PointsBySpec(Tail(lines), acc)
             ELSE IF Len(f) = 1 /\ ParseFloatOK(f[1])
             THEN PointsBySpec(Tail(lines),
                               Append(acc, [X |-> Len(acc), Y |-> ParseFloat(f[1])]))
             ELSE IF Len(f) = 2 /\ ParseFloatOK(f[1]) /\ ParseFloatOK(f[2])
             THEN PointsBySpec(Tail(lines),
                               Append(acc, [X |-> ParseFloat(f[1]), Y |-> ParseFloat(f[2])]))
             ELSE PointsBySpec(Tail(lines), acc)

-----------------------------------------------------------------------------
(* C1 *)

C1_Counter == lineIndex = Len(points)

C1_Step ==
    LineStep =>
        LET appended == Len(points') = Len(points) + 1 IN
        /\ points' = points \/ (appended /\ SubSeq(points', 1, Len(points)) = points)
        /\ lineIndex' = IF appended THEN lineIndex + 1 ELSE lineIndex
        /\ (appended /\ Len(Fields(fileLines[pos + 1])) = 1)
              => points'[Len(points')].X = Len(points)

C1_Example ==
    (fileLines = << <<"#", "1">>, <<"7">>, <<" ", "8", " ">> >> /\ pos = 3)
        => points = << [X |-> 0, Y |-> 7], [X |-> 1, Y |-> 8] >>

\* C1: in readData and readDataFromFile, at every point of the line loop the
\* synthetic X counter equals the number of points appended so far; a line
\* step adds exactly 1 to it when it appends a point and leaves it (and the
\* points) unchanged otherwise; a point appended from a one-field line has X
\* equal to its 0-based position in the output, whatever its physical line
\* number ('#1', '7', ' 8 ' yields [{0,7},{1,8}]).
C1_SyntheticXCounter ==
    /\ [](C1_Counter /\ C1_Example)
    /\ [][C1_Step]_vars

\* A one-field point at output position 1 read from physical line 3 or
\* later, after a comment or malformed line.
C1_Witness ==
    /\ InLoop
    /\ pos >= 3
    /\ Len(points) = 2
    /\ Len(Fields(fileLines[pos])) = 1
    /\ points[2].X = 1
    /\ lineIndex = 2

-----------------------------------------------------------------------------
(* C2 *)

\* C2: whenever the file opens and scans without an I/O fault, ingestion
\* returns a nil error and exactly the points of the well-formed data lines,
\* in file order, malformed lines contributing nothing ('1<TAB>2', 'x',
\* '7' yields [{1,2},{1,7}]).
C2_MalformedLineTolerance ==
    (data.done /\ faults \cap {"open", "scan"} = {})
        => /\ data.err = "nil"
           /\ data.points = PointsBySpec(fileLines, <<>>)

\* The same statement for the current implementation alone.
C2_ReadData == impl = "v2" => C2_MalformedLineTolerance

\* The same statement for the earlier implementation on files none of whose
\* data lines has three or more fields.
C2_ReadDataFromFileUpToTwoFields ==
    (impl = "v1" /\ \A i \in 1..Len(fileLines) : Len(Fields(fileLines[i])) <= 2)
        => C2_MalformedLineTolerance

-----------------------------------------------------------------------------
(* C3 *)

C3_ParseLine ==
    \A l \in Lines : \A idx \in 0..MaxLines :
        Len(Fields(l)) \notin {1, 2}
            => /\ parseLine(l, idx).err = "expected 1 or 2 values"
               /\ parseLine(l, idx).got = Len(Fields(l))
               /\ parseLine(l, idx).point = ZeroPoint

C3_Step ==
    LET raw == fileLines[pos + 1] IN
    (LineStep /\ ~SkippedBySpec(raw) /\ Len(Fields(raw)) >= 3)
        => /\ points' = points
           /\ Len(diags') = Len(diags) + 1
           /\ diags'[Len(diags')].got = Len(Fields(raw))
           /\ diags'[Len(diags')].err \in {"expected 1 or 2 values", "Unsupported format"}

\* C3: a line of 0 or of 3 or more fields makes line parsing fail with
\* UnsupportedFormat, reporting the field count, and yields no point; a line
\* of three or more fields never yields a point built from its first two.
C3_UnsupportedFormat == [][C3_ParseLine /\ C3_Step]_vars

\* The same statement for the current implementation alone.
C3_ReadData == [][impl = "v2" => (C3_ParseLine /\ C3_Step)]_vars

-----------------------------------------------------------------------------
(* C4 *)

SilentSkip == points' = points /\ diags' = diags /\ lineIndex' = lineIndex

\* C4: a line is skipped silently (no point, no diagnostic, no counter
\* change) if and only if, after trimming, it is empty or starts with '#' or
\* '%'; white space before the marker does not matter, and the marker at a
\* later position has no effect.
C4_CommentBlankPolicy ==
    [][LineStep => (SilentSkip <=> SkippedBySpec(fileLines[pos + 1]))]_vars

\* The same statement for the current implementation alone.
C4_ReadData ==
    [][(impl = "v2" /\ LineStep) => (SilentSkip <=> SkippedBySpec(fileLines[pos + 1]))]_vars

-----------------------------------------------------------------------------
(* C5 *)

EmptyIngest == data.done /\ data.err = "nil" /\ data.points = <<>>

\* C5: whenever ingestion succeeds with zero points, chart construction, the
\* image save and the terminal display are never reached, and the run ends
\* with the error "no valid data points" and a non-zero exit status.
C5_EmptyResultPolicy ==
    EmptyIngest
        => /\ "chart" \notin Elems(trace)
           /\ "display" \notin Elems(trace)
           /\ saveDims = <<>> /\ ~saved
           /\ "sixel" \notin Elems(out)
           /\ supported = "unknown"
           /\ pc \in {"run_read", "plot_read", "main_ret", "exit"}
           /\ pc \in {"main_ret", "exit"} => ret = "no valid data points"
           /\ pc = "exit" => exitCode = 1

\* A finished run over a non-empty file of comments and malformed lines.
C5_Witness ==
    /\ pc = "exit"
    /\ EmptyIngest
    /\ Len(fileLines) >= 2
    /\ diags # <<>>
    /\ exitCode = 1

-----------------------------------------------------------------------------
(* C6 *)

Order == <<"flags", "ingest", "chart", "display">>

\* The conditions that are fatal to a run.
Fatal ==
    \/ nargs # 1
    \/ faults # {}
    \/ EmptyIngest

\* C6: the steps start in the order flags, ingest, chart, display; a step
\* starts only if every earlier step succeeded; the first fatal condition
\* (usage, open, scan, empty dataset, chart, save, display) is carried to
\* main, no later step starts, and the exit status is non-zero, while a run
\* without one exits 0; the display
\* starts only after the image was saved; malformed lines alone never make
\* the run fail.
C6_PipelineFailFast ==
    /\ IsPrefix(trace, Order)
    /\ "ingest" \in Elems(trace) => nargs = 1 /\ "flags" \notin faults
    /\ "chart" \in Elems(trace)
          => data.done /\ data.err = "nil" /\ data.points # <<>>
             /\ faults \cap {"open", "scan"} = {}
    /\ "display" \in Elems(trace) => saved /\ faults \cap {"chart", "save"} = {}
    /\ Cardinality(faults) <= 1
    /\ (nargs # 1 \/ "flags" \in faults) => Len(trace) <= 1
    /\ faults \cap {"open", "scan"} # {} => Len(trace) <= 2
    /\ EmptyIngest => Len(trace) <= 2
    /\ faults \cap {"chart", "save"} # {} => Len(trace) <= 3
    /\ faults # {} => ret # "nil"
    /\ pc = "exit" => (exitCode # 0 <=> Fatal)
    /\ pc = "exit" => exitCode \in {0, 1, 2}
    /\ pc # "exit" => exitCode = 0 - 1

\* A run that absorbed a malformed line, saved the image and then failed in
\* the display step.
C6_Witness ==
    /\ pc = "exit"
    /\ diags # <<>>
    /\ saved
    /\ "encode" \in faults
    /\ trace = Order
    /\ exitCode = 1

-----------------------------------------------------------------------------
(* C7 *)

\* t contains sub, letters compared without regard to case.
ContainsFold(t, sub) ==
    \E i \in 0..(Len(t) - Len(sub)) :
        \A j \in 1..Len(sub) : LowerChar(t[i + j]) = sub[j]

SupportedBySpec(t) ==
    ContainsFold(t, XTERM) \/ ContainsFold(t, VT340) \/ ContainsFold(t, MLTERM)

C7_Capability ==
    /\ supported = "yes" => SupportedBySpec(term)
    /\ supported = "no" => ~SupportedBySpec(term)

C7_Unsupported ==
    (pc = "exit" /\ supported = "no")
        => /\ exitCode = 0
           /\ saved
           /\ "sixel" \notin Elems(out)
           /\ enc = NewEncoder
           /\ out = <<"Plot saved">>

\* C7: the terminal counts as supported exactly when TERM contains xterm,
\* vt340 or mlterm, compared case-insensitively; when it is unset or not
\* recognized the run still exits 0 with the image saved, the display is
\* skipped silently and no terminal graphics are written.
C7_TerminalCapability == C7_Capability /\ C7_Unsupported

\* The same statement for the current implementation alone.
C7_DisplaySixel == impl = "v2" => C7_TerminalCapability

-----------------------------------------------------------------------------
(* C8 *)

\* C8: the input file is open only inside readData / readDataFromFile and
\* the saved image only inside the display code that opened it; every
\* return, the early returns on scan, decode and encode errors included,
\* closes the handle, and none is open when the program exits.
C8_FileHandlesScoped ==
    /\ "data" \in open => pc \in {"readData_loop", "readDataFromFile_loop"}
    /\ "img" \in open => pc \in {"displaySixel_img", "plot_img"}
    /\ pc \in {"readData_loop", "readDataFromFile_loop"} => "data" \in open
    /\ pc \in {"displaySixel_img", "plot_img"} => "img" \in open
    /\ pc = "exit" => open = {}

\* readData has returned early on a scan error, part of the file unread.
C8_Witness ==
    /\ pc = "run_read"
    /\ "scan" \in faults
    /\ pos < Len(fileLines)
    /\ pos > 0
    /\ open = {}

-----------------------------------------------------------------------------
(* C9 *)

\* enc.Encode was called: it wrote the image or it failed.
EncodeCalled == "sixel" \in Elems(out) \/ "encode" \in faults

C9_Encoder ==
    EncodeCalled =>
        enc = IF cfg.Scale.num # cfg.Scale.den
              THEN [Width  |-> Trunc(cfg.Width * cfg.Scale.num, cfg.Scale.den),
                    Height |-> Trunc(cfg.Height * cfg.Scale.num, cfg.Scale.den)]
              ELSE [Width |-> 0, Height |-> 0]

C9_Example ==
    (EncodeCalled /\ cfg = [Width |-> 100, Height |-> 50, Scale |-> [num |-> 2, den |-> 1]])
        => enc = [Width |-> 200, Height |-> 100]

C9_Save == saveDims # <<>> => saveDims = <<cfg.Width, cfg.Height>>

\* C9: with a supported terminal and a scale other than 1.0 the encoder is
\* asked for trunc(width*scale) by trunc(height*scale) (2.0, 100, 50 gives
\* 200 by 100); with scale 1.0 no resize is asked for; the dimensions of the
\* image save are width and height, whatever the scale.
C9_ScaleFactor == C9_Encoder /\ C9_Example /\ C9_Save

\* The same statement for the current implementation alone.
C9_DisplaySixel == impl = "v2" => C9_ScaleFactor

-----------------------------------------------------------------------------
(* C10 *)

C10_Step ==
    LET raw == fileLines[pos + 1] IN
    (impl = "v2" /\ LineStep)
        => IF ~SkippedBySpec(raw) /\ parseLine(TrimSpace(raw), lineIndex).err # "nil"
           THEN /\ Len(diags') = Len(diags) + 1
                /\ SubSeq(diags', 1, Len(diags)) = diags
                /\ diags'[Len(diags')].n = Len(points) + 1
                /\ diags'[Len(diags')].err = parseLine(TrimSpace(raw), lineIndex).err
           ELSE diags' = diags

\* Two malformed lines with no point between them report the same number;
\* the numbers never exceed one plus the number of points.
C10_Numbers ==
    impl = "v2" =>
        /\ \A i \in 1..Len(diags) : diags[i].n >= 1 /\ diags[i].n <= Len(points) + 1
        /\ \A i \in 1..(Len(diags) - 1) : diags[i].n <= diags[i + 1].n
        /\ (InLoop /\ Len(diags) = pos) => \A i \in 1..Len(diags) : diags[i].n = 1

\* C10: in readData every line that is neither blank nor a comment and that
\* parseLine rejects produces exactly one diagnostic, numbered one plus the
\* number of points appended before it (lineIndex+1), not its physical
\* position; comment, blank and valid lines produce none.
C10_DiagnosticNumbering ==
    /\ []C10_Numbers
    /\ [][C10_Step]_vars

\* Two consecutive malformed lines, third and fourth of the file or later,
\* both reported as line 2.
C10_Witness ==
    /\ impl = "v2"
    /\ InLoop
    /\ pos >= 3
    /\ Len(points) = 1
    /\ Len(diags) >= 2
    /\ diags[Len(diags)].n = 2
    /\ diags[Len(diags) - 1].n = 2

====
